---- MODULE Spec2Model ----
(***************************************************************************)
(* Model of src/src/metrics.ts: the four public operations getBusFactor,   *)
(* cloneRepo, calculateRampUpMetric and checkLicenseCompatibility, with    *)
(* the remote services and the file system as a nondeterministic           *)
(* environment.  One behaviour is one invocation of one operation.         *)
(*                                                                         *)
(* JavaScript strings are sequences of one-character strings; URLs are     *)
(* sequences of chunks (a host prefix is one chunk).  Scores are kept in   *)
(* tenths (0.1 is 1, 1.0 is 10, the failure value -1 is -10).              *)
(***************************************************************************)
EXTENDS Integers, Sequences, FiniteSets, TLC

VARIABLES
    GITHUB_TOKEN,       \* process-wide credential, read once (line 9)
    op,                 \* the public operation invoked
    url,                \* its argument
    pc,                 \* position inside the operation
    requests,           \* every remote request issued so far, in order
    responses,          \* what each request produced, in the same order
    page,               \* getBusFactor: current page number
    totalContributors,  \* getBusFactor: running count
    repoPath,           \* checkLicenseCompatibility: repository identifier
    licenseInfo,        \* checkLicenseCompatibility: resolved license value
    entries,            \* calculateRampUpMetric: directory listing being walked
    idx,                \* calculateRampUpMetric: next entry of the listing
    totalSloc,          \* calculateRampUpMetric: running code-line count
    totalComments,      \* calculateRampUpMetric: running comment-line count
    lastFile,           \* calculateRampUpMetric: the file read last
    lastCount,          \* calculateRampUpMetric: the classifier's result for it
    prevFile,           \* calculateRampUpMetric: the file read before it
    result              \* value returned to the caller

vars == <<GITHUB_TOKEN, op, url, pc, requests, responses, page,
          totalContributors, repoPath, licenseInfo, entries, idx, totalSloc,
          totalComments, lastFile, lastCount, prevFile, result>>

----------------------------------------------------------------------------
(* Bounds of the model *)

\* getBusFactor issues at most this many page requests in the model
MaxPages == 3

\* files handed to the line classifier exceed the line cap by at most this
MaxOver == 1

(* Program constants *)

PER_PAGE == 100

LINE_CAP == 100

----------------------------------------------------------------------------
(* JavaScript values and string primitives *)

Undefined == [type |-> "undefined", str |-> <<>>]

Null == [type |-> "null", str |-> <<>>]

Object == [type |-> "object", str |-> <<>>]

Str(s) == [type |-> "string", str |-> s]

\* !v for the values that occur: undefined, null and '' are falsy
Falsy(v) ==
    v.type \in {"undefined", "null"} \/ (v.type = "string" /\ v.str = <<>>)

\* v || ''
OrEmpty(v) == IF Falsy(v) THEN Str(<<>>) ELSE v

Min(a, b) == IF a < b THEN a ELSE b

Whitespace == {" ", "\n", "\t", "\r"}

UpperCase == <<"A", "B", "C", "D", "E", "F", "G", "H", "I", "J", "K", "L", "M",
               "N", "O", "P", "Q", "R", "S", "T", "U", "V", "W", "X", "Y", "Z">>

LowerCase == <<"a", "b", "c", "d", "e", "f", "g", "h", "i", "j", "k", "l", "m",
               "n", "o", "p", "q", "r", "s", "t", "u", "v", "w", "x", "y", "z">>

LowerChar(c) ==
    IF \E i \in 1..26 : UpperCase[i] = c
    THEN LowerCase[CHOOSE i \in 1..26 : UpperCase[i] = c]
    ELSE c

\* String.prototype.toLowerCase
ToLowerCase(s) == [i \in 1..Len(s) |-> LowerChar(s[i])]

\* s.startsWith(p, at-1): p occurs in s at position at
MatchesAt(s, p, at) ==
    /\ at >= 1
    /\ at + Len(p) - 1 <= Len(s)
    /\ \A j \in 1..Len(p) : s[at + j - 1] = p[j]

StartsWith(s, p) == MatchesAt(s, p, 1)

EndsWith(s, p) == MatchesAt(s, p, Len(s) - Len(p) + 1)

\* String.prototype.includes
Includes(s, p) == \E at \in 1..(Len(s) + 1) : MatchesAt(s, p, at)

\* String.prototype.replace with a string pattern: the first occurrence only
Replace(s, p, r) ==
    IF Includes(s, p)
    THEN LET at == CHOOSE a \in 1..(Len(s) + 1) :
                       /\ MatchesAt(s, p, a)
                       /\ \A b \in 1..(a - 1) : ~MatchesAt(s, p, b)
         IN  SubSeq(s, 1, at - 1) \o r \o SubSeq(s, at + Len(p), Len(s))
    ELSE s

\* String.prototype.trim
Trim(s) ==
    IF \A i \in 1..Len(s) : s[i] \in Whitespace
    THEN <<>>
    ELSE LET first == CHOOSE i \in 1..Len(s) :
                          /\ s[i] \notin Whitespace
                          /\ \A j \in 1..(i - 1) : s[j] \in Whitespace
             last  == CHOOSE i \in 1..Len(s) :
                          /\ s[i] \notin Whitespace
                          /\ \A j \in (i + 1)..Len(s) : s[j] \in Whitespace
         IN  SubSeq(s, first, last)

\* s.split('\n')[0]
FirstLine(s) ==
    IF \E i \in 1..Len(s) : s[i] = "\n"
    THEN SubSeq(s, 1, (CHOOSE i \in 1..Len(s) :
                           s[i] = "\n" /\ \A j \in 1..(i - 1) : s[j] # "\n") - 1)
    ELSE s

----------------------------------------------------------------------------
(* URLs *)

GITHUB_PREFIX == <<"https://github.com/">>

NPM_PREFIX == <<"https://www.npmjs.com/package/">>

Urls == { GITHUB_PREFIX \o <<"owner/repo">>,
          NPM_PREFIX \o <<"pkg">> }

\* what a remote request produced: failure, or a payload
Response(ok, len, value) == [ok |-> ok, len |-> len, value |-> value]

NoResult == [kind |-> "none", score |-> 0, details |-> "", line |-> <<>>,
             compatible |-> FALSE]

----------------------------------------------------------------------------
(* getBusFactor *)

ContributorsRequest(path, p) ==
    [api |-> "contributors", path |-> path, page |-> p]

\* the step function with the bound 4 taken exclusively
BusFactorScoreStrict(c) ==
    IF c = 1 THEN 1
    ELSE IF c = 2 THEN 2
    ELSE IF c < 4 THEN 3
    ELSE IF c <= 8 THEN 4
    ELSE IF c <= 16 THEN 5
    ELSE IF c <= 32 THEN 6
    ELSE IF c <= 64 THEN 7
    ELSE IF c <= 128 THEN 8
    ELSE IF c <= 256 THEN 9
    ELSE 10

\* lines 40-61, in tenths
BusFactorScore(c) ==
    IF c = 1 THEN 1
    ELSE IF c = 2 THEN 2
    ELSE IF c <= 4 THEN 3
    ELSE IF c <= 8 THEN 4
    ELSE IF c <= 16 THEN 5
    ELSE IF c <= 32 THEN 6
    ELSE IF c <= 64 THEN 7
    ELSE IF c <= 128 THEN 8
    ELSE IF c <= 256 THEN 9
    ELSE 10

NumberResult(tenths) ==
    [kind |-> "number", score |-> tenths, details |-> "", line |-> <<>>,
     compatible |-> FALSE]

\* a full page taken for the last one
IsLastPageInclusive(len) == len <= PER_PAGE

\* line 32: the page just fetched is the last one
IsLastPage(len) == len < PER_PAGE

BfOther ==
    UNCHANGED <<GITHUB_TOKEN, op, url, licenseInfo, entries, idx, totalSloc,
                totalComments, lastFile, lastCount, prevFile>>

\* lines 12-14
BfStart ==
    /\ op = "getBusFactor"
    /\ pc = "start"
    /\ repoPath' = Replace(url, GITHUB_PREFIX, <<>>)
    /\ totalContributors' = 0
    /\ page' = 1
    /\ pc' = "loop"
    /\ UNCHANGED <<requests, responses, result>>
    /\ BfOther

\* lines 20-36 and 39-63: one iteration whose request succeeds
BfPage ==
    /\ op = "getBusFactor"
    /\ pc = "loop"
    /\ page <= MaxPages
    /\ \E len \in 0..PER_PAGE :
        /\ requests' = Append(requests, ContributorsRequest(repoPath, page))
        /\ responses' = Append(responses, Response(TRUE, len, Undefined))
        /\ totalContributors' = totalContributors + len
        /\ IF IsLastPage(len)
           THEN /\ result' = NumberResult(BusFactorScore(totalContributors'))
                /\ pc' = "returned"
                /\ page' = page
           ELSE /\ page' = page + 1
                /\ pc' = "loop"
                /\ result' = result
    /\ UNCHANGED repoPath
    /\ BfOther

\* the request fails and the count gathered so far is scored
BfFailScoresPartial ==
    /\ op = "getBusFactor"
    /\ pc = "loop"
    /\ page <= MaxPages
    /\ requests' = Append(requests, ContributorsRequest(repoPath, page))
    /\ responses' = Append(responses, Response(FALSE, 0, Undefined))
    /\ result' = NumberResult(BusFactorScore(totalContributors))
    /\ pc' = "returned"
    /\ UNCHANGED <<page, totalContributors, repoPath>>
    /\ BfOther

\* lines 20 and 64-68: the request fails, the catch block returns -1
BfFail ==
    /\ op = "getBusFactor"
    /\ pc = "loop"
    /\ page <= MaxPages
    /\ requests' = Append(requests, ContributorsRequest(repoPath, page))
    /\ responses' = Append(responses, Response(FALSE, 0, Undefined))
    /\ result' = NumberResult(-10)
    /\ pc' = "returned"
    /\ UNCHANGED <<page, totalContributors, repoPath>>
    /\ BfOther

----------------------------------------------------------------------------
(* cloneRepo *)

VoidResult == [kind |-> "void", score |-> 0, details |-> "", line |-> <<>>,
               compatible |-> FALSE]

\* lines 73-80: the clone succeeds or fails; a failure is swallowed
CloneRepo ==
    /\ op = "cloneRepo"
    /\ pc = "start"
    /\ \E cloned \in BOOLEAN :
        /\ requests' = Append(requests, [api |-> "clone", path |-> url, page |-> 0])
        /\ responses' = Append(responses, Response(cloned, 0, Undefined))
    /\ result' = VoidResult
    /\ pc' = "returned"
    /\ UNCHANGED <<GITHUB_TOKEN, op, url, page, totalContributors, repoPath,
                   licenseInfo, entries, idx, totalSloc, totalComments,
                   lastFile, lastCount, prevFile>>

----------------------------------------------------------------------------
(* calculateRampUpMetric *)

\* position of the first '\n' of s at or after i, Len(s)+1 when there is none
NextNewline(s, i) ==
    IF \E j \in i..Len(s) : s[j] = "\n"
    THEN CHOOSE j \in i..Len(s) :
             s[j] = "\n" /\ \A k \in i..(j - 1) : s[k] # "\n"
    ELSE Len(s) + 1

RECURSIVE SplitRange(_, _, _)
\* the lines of s[lo..hi]; the range is halved at a '\n' near its middle, which
\* keeps the evaluation shallow
SplitRange(s, lo, hi) ==
    IF \A j \in lo..hi : s[j] # "\n"
    THEN <<SubSeq(s, lo, hi)>>
    ELSE LET mid == (lo + hi) \div 2
             m   == IF \E j \in mid..hi : s[j] = "\n"
                    THEN NextNewline(s, mid)
                    ELSE CHOOSE j \in lo..(mid - 1) :
                             s[j] = "\n" /\ \A k \in (j + 1)..(mid - 1) : s[k] # "\n"
         IN  SplitRange(s, lo, m - 1) \o SplitRange(s, m + 1, hi)

\* fileContent.split('\n')
Split(s) == SplitRange(s, 1, Len(s))

\* lines.slice(0, n)
Slice(lines, n) == SubSeq(lines, 1, Min(Len(lines), n))

BLOCK_OPEN == <<"/", "*">>

BLOCK_CLOSE == <<"*", "/">>

LINE_COMMENT == <<"/", "/">>

\* lines 90-105: the loop body for one line, on the loop's local state
ClassifyLine(line, st) ==
    LET trimmedLine == Trim(line)
    IN  IF st.inBlockComment
        THEN [sloc |-> st.sloc,
              comments |-> st.comments + 1,
              inBlockComment |-> ~EndsWith(trimmedLine, BLOCK_CLOSE)]
        ELSE IF StartsWith(trimmedLine, LINE_COMMENT)
        THEN [st EXCEPT !.comments = @ + 1]
        ELSE IF StartsWith(trimmedLine, BLOCK_OPEN)
        THEN [sloc |-> st.sloc,
              comments |-> st.comments + 1,
              inBlockComment |-> ~EndsWith(trimmedLine, BLOCK_CLOSE)]
        ELSE IF Len(trimmedLine) > 0
        THEN [st EXCEPT !.sloc = @ + 1]
        ELSE st

RECURSIVE CountRange(_, _, _, _)
\* lines 89-106: the loop over lines[lo..hi] in order, started in state st; the
\* range is halved, and the first half evaluated before the second is entered,
\* to keep the evaluation shallow
CountRange(lines, lo, hi, st) ==
    IF lo > hi THEN st
    ELSE IF lo = hi THEN ClassifyLine(lines[lo], st)
    ELSE LET mid  == (lo + hi) \div 2
             half == CountRange(lines, lo, mid, st)
         IN  IF half.sloc >= 0 THEN CountRange(lines, mid + 1, hi, half) ELSE half

\* lines 85-87: the loop's local state before the first line
LoopStart == [sloc |-> 0, comments |-> 0, inBlockComment |-> FALSE]

\* the loop over all the lines of one file
CountLines(lines) == CountRange(lines, 1, Len(lines), LoopStart)

\* the classifier with the limit of line 84 left out
ScanAllLines(fileContent) == CountLines(Split(fileContent))

\* lines 84-87 and the loop: the loop's final local state for one file
ScanLimited(fileContent) ==
    CountLines(Slice(Split(fileContent), LINE_CAP))

\* the classifier without the limit of line 84
countSlocAndCommentsUnlimited(fileContent) ==
    LET st == ScanAllLines(fileContent)
    IN  [sloc |-> st.sloc, comments |-> st.comments]

\* lines 83-109
countSlocAndCommentsLimited(fileContent) ==
    LET st == ScanLimited(fileContent)
    IN  [sloc |-> st.sloc, comments |-> st.comments]

\* line 149: totalComments / totalSloc as JavaScript computes it
Ratio(c, s) ==
    IF s = 0
    THEN [kind |-> IF c = 0 THEN "NaN" ELSE "Infinity", num |-> c, den |-> s]
    ELSE [kind |-> "finite", num |-> c, den |-> s]

RampUpResult(s, c) ==
    [kind |-> "rampup", score |-> 0, details |-> "", line |-> <<>>,
     compatible |-> FALSE, sloc |-> s, comments |-> c, ratio |-> Ratio(c, s)]

(* The files on disk.  A file is a first line, a filler line repeated n    *)
(* times and a last line, joined by '\n'; readFileSync renders it.         *)

\* s repeated n times
Repeat(s, n) == [i \in 1..(n * Len(s)) |-> s[((i - 1) % Len(s)) + 1]]

HeadLines == { <<" ", "/", "*", " ", "x", " ">>,
               <<"/", "*", " ", "*", "/">>,
               <<"/", "*", "/">>,
               <<"x">> }

FillLines == { <<>>,
               <<" ", "*", " ", "x">>,
               <<"x">>,
               <<"/", "/", "x">> }

TailLines == { <<>>,
               <<"x">>,
               <<" ", "*", "/", "\t">> }

\* 2 lines, or LINE_CAP lines and a few more
FillCounts == {0} \cup ((LINE_CAP - 2)..(LINE_CAP - 2 + MaxOver))

DiskFiles == [head : HeadLines, fill : FillLines, n : FillCounts, tail : TailLines]

NoFile == [head |-> <<>>, fill |-> <<>>, n |-> 0, tail |-> <<>>]

\* fs.readFileSync(path, 'utf8')
FileContent(f) == f.head \o <<"\n">> \o Repeat(f.fill \o <<"\n">>, f.n) \o f.tail

(* Directory listings: "src" is a .ts or .js file, "other" any other file, *)
(* "dir" a subdirectory without entries of its own.                        *)
DirListings == { <<>>, <<"src">>, <<"other">>, <<"dir", "src">>,
                 <<"src", "src">> }

RuOther ==
    UNCHANGED <<GITHUB_TOKEN, op, url, requests, responses, page,
                totalContributors, repoPath, licenseInfo>>

\* the locals of the call are gone once it has returned or thrown
RuLocalsGone ==
    /\ entries' = <<>>
    /\ idx' = 1
    /\ totalSloc' = 0
    /\ totalComments' = 0
    /\ lastFile' = NoFile
    /\ lastCount' = [sloc |-> 0, comments |-> 0]
    /\ prevFile' = NoFile

\* an fs call throws and nothing catches it: the returned promise rejects
RuThrow ==
    /\ pc' = "threw"
    /\ RuLocalsGone
    /\ UNCHANGED result

\* lines 138-142 and 113: the walk starts by listing localPath
RuStart ==
    /\ op = "calculateRampUpMetric"
    /\ pc = "start"
    /\ \/ RuThrow
       \/ /\ \E listing \in DirListings : entries' = listing
          /\ idx' = 1
          /\ totalSloc' = 0
          /\ totalComments' = 0
          /\ pc' = "walk"
          /\ UNCHANGED <<lastFile, lastCount, prevFile, result>>
    /\ RuOther

\* lines 115-124 with the callback of lines 142-147: one directory entry
RuEntry ==
    /\ op = "calculateRampUpMetric"
    /\ pc = "walk"
    /\ idx <= Len(entries)
    /\ \/ RuThrow                       \* statSync, readdirSync or readFileSync
       \/ /\ entries[idx] # "src"
          /\ idx' = idx + 1
          /\ UNCHANGED <<pc, entries, totalSloc, totalComments, lastFile,
                         lastCount, prevFile, result>>
       \/ /\ entries[idx] = "src"
          /\ \E f \in DiskFiles :
                LET c == countSlocAndCommentsLimited(FileContent(f))
                IN  /\ totalSloc' = totalSloc + c.sloc
                    /\ totalComments' = totalComments + c.comments
                    /\ lastFile' = f
                    /\ lastCount' = c
                    /\ prevFile' = lastFile
          /\ idx' = idx + 1
          /\ UNCHANGED <<pc, entries, result>>
    /\ RuOther

\* lines 149-164: the ratio, the optional README, the return
RuFinish ==
    /\ op = "calculateRampUpMetric"
    /\ pc = "walk"
    /\ idx > Len(entries)
    /\ \/ RuThrow                       \* readFileSync of an existing README
       \/ /\ result' = RampUpResult(totalSloc, totalComments)
          /\ pc' = "returned"
          /\ RuLocalsGone
    /\ RuOther

----------------------------------------------------------------------------
(* checkLicenseCompatibility *)

\* the repository object of the registry metadata; str holds its url
\* property (<<>>: the property is missing)
Repository(u) == [type |-> "object", str |-> u]

\* lines 248-253
compatibleLicenses ==
    { <<"L", "G", "P", "L", "-", "2", ".", "1">>,
      <<"L", "G", "P", "L", "-", "3", ".", "0">>,
      <<"G", "P", "L", "-", "2", ".", "0">>,
      <<"G", "P", "L", "-", "3", ".", "0">>,
      <<"M", "I", "T">>,
      <<"B", "S", "D", "-", "2", "-", "C", "l", "a", "u", "s", "e">>,
      <<"B", "S", "D", "-", "3", "-", "C", "l", "a", "u", "s", "e">>,
      <<"A", "p", "a", "c", "h", "e", "-", "2", ".", "0">>,
      <<"I", "S", "C">>,
      <<"U", "n", "l", "i", "c", "e", "n", "s", "e">> }

\* lines 254-257
isCompatibleWithLGPLv2_1(licenseText) ==
    \E license \in compatibleLicenses :
        \/ Includes(ToLowerCase(licenseText), ToLowerCase(license))
        \/ Includes(ToLowerCase(licenseText),
                    Replace(ToLowerCase(license), <<"-">>, <<" ">>))

RECURSIVE SkipWhile(_, _, _)
\* the first position of s at or after i whose character is not in set
SkipWhile(s, i, set) ==
    IF i > Len(s) THEN Len(s) + 1
    ELSE IF s[i] \in set THEN SkipWhile(s, i + 1, set)
    ELSE i

RECURSIVE SkipUntil(_, _, _)
\* the first position of s at or after i whose character is in set
SkipUntil(s, i, set) ==
    IF i > Len(s) THEN Len(s) + 1
    ELSE IF s[i] \in set THEN i
    ELSE SkipUntil(s, i + 1, set)

LICENSE_WORD == <<"l", "i", "c", "e", "n", "s", "e">>

\* position just after /#+\s*License/i matched from i, 0 when it does not
HeadingEnd(s, i) ==
    IF i <= Len(s) /\ s[i] = "#"
    THEN LET word == SkipWhile(s, SkipWhile(s, i, {"#"}), Whitespace)
         IN  IF MatchesAt(ToLowerCase(s), LICENSE_WORD, word)
             THEN word + Len(LICENSE_WORD)
             ELSE 0
    ELSE 0

\* content.match(/#+\s*License\s*([\s\S]*?)(?=#+|$)/i): group 1, or Null
LicenseSection(content) ==
    IF \E i \in 1..Len(content) : HeadingEnd(content, i) > 0
    THEN LET at == CHOOSE i \in 1..Len(content) :
                       /\ HeadingEnd(content, i) > 0
                       /\ \A j \in 1..(i - 1) : HeadingEnd(content, j) = 0
             from == SkipWhile(content, HeadingEnd(content, at), Whitespace)
             to   == SkipUntil(content, from, {"#"})
         IN  Str(SubSeq(content, from, to - 1))
    ELSE Null

\* the whole README taken for the section when there is no heading
extractLicenseOrAll(content) ==
    LET match == LicenseSection(content)
    IN  IF match.type = "string" THEN Str(Trim(match.str)) ELSE Str(content)

\* lines 241-245
extractLicenseFromReadme(content) ==
    LET match == LicenseSection(content)
    IN  IF match.type = "string" THEN Str(Trim(match.str)) ELSE Null

(* What the remote services can hold *)

LicenseFiles ==
    { <<"M", "I", "T", " ", "L", "i", "c", "e", "n", "s", "e", "\n", "\n",
        "C", "o", "p", "y", "r", "i", "g", "h", "t", " ", "x">>,
      <<>>,
      <<"A", "l", "l", " ", "r", "i", "g", "h", "t", "s", " ", "r", "e", "s",
        "e", "r", "v", "e", "d">>,
      <<"B", "S", "D", " ", "2", "-", "C", "l", "a", "u", "s", "e", " ", "L",
        "i", "c", "e", "n", "s", "e">> }

Readmes ==
    { <<"#", " ", "L", "i", "c", "e", "n", "s", "e", "\n", "M", "I", "T",
        "\n">>,
      <<"#", " ", "I", "n", "t", "r", "o", "\n", "t", "e", "x", "t">>,
      <<"#", "#", " ", "L", "I", "C", "E", "N", "S", "E", "\n", "\n", "#",
        " ", "N", "e", "x", "t">>,
      <<"#", " ", "x", "\n", "#", "#", " ", "L", "i", "c", "e", "n", "s",
        "e", "\n", "A", "p", "a", "c", "h", "e", " ", "2", ".", "0", "\n",
        "#", "#", " ", "M", "o", "r", "e">>,
      <<>>,
      <<"#", "l", "i", "c", "e", "n", "s", "e", " ", "P", "r", "o", "p", "r",
        "i", "e", "t", "a", "r", "y">>,
      <<"#", " ", "L", "i", "c", "e", "n", "s", "i", "n", "g", "\n", "#",
        " ", "G", "P", "L", "-", "3", ".", "0">> }

MIT_ID == <<"M", "I", "T">>

PROPRIETARY_ID == <<"P", "r", "o", "p", "r", "i", "e", "t", "a", "r", "y">>

\* the license property of a parsed package.json: missing, a string, or
\* the object form { type, url }
ManifestLicenses == { Undefined, Str(<<>>), Str(MIT_ID), Str(PROPRIETARY_ID),
                      Object }

\* the repository property of the registry metadata
Repositories ==
    { Undefined,
      Repository(<<>>),
      Repository(<<"git+", "https://github.com/", "owner/repo", ".git">>),
      Repository(<<"git://github.com/", "owner/repo", ".git">>),
      Repository(<<"https://github.com/", "owner/repo">>) }

\* process.env.GITHUB_TOKEN
Tokens == { Undefined, Str(<<>>), Str(<<"t">>) }

LicenseResult(score, details, line, compatible) ==
    [kind |-> "license", score |-> score, details |-> details, line |-> line,
     compatible |-> compatible]

TokenNotSet == LicenseResult(0, "GitHub token not set", <<>>, FALSE)

NoRepository ==
    LicenseResult(0, "No GitHub repository found for npm package", <<>>, FALSE)

NoLicenseInformation ==
    LicenseResult(0, "No license information found", <<>>, FALSE)

\* lines 235-238
ErrorCheckingLicense ==
    LicenseResult(0, "Error checking license: ", <<>>, FALSE)

\* lines 227-231
LicenseFound(licenseText) ==
    LET compatible == isCompatibleWithLGPLv2_1(licenseText)
    IN  LicenseResult(IF compatible THEN 1 ELSE 0, "License found: ",
                      FirstLine(licenseText), compatible)

\* only an unset variable taken for a missing credential
TokenUndefined(token) == token.type = "undefined"

\* line 170
TokenMissing(token) == Falsy(token)

\* the repository alone tested, not its url
HasRepository(repository) == ~Falsy(repository)

\* line 187: repository && repository.url
HasRepositoryUrl(repository) ==
    ~Falsy(repository) /\ repository.type = "object" /\ repository.str # <<>>

\* lines 188-192
RepoPathOfRepository(u) ==
    Replace(Replace(Replace(Replace(u,
        <<"git+", "https://github.com/">>, <<>>),
        <<"git://github.com/">>, <<>>),
        <<"https://github.com/">>, <<>>),
        <<".git">>, <<>>)

\* lines 226-234; toLowerCase of a value that is no string throws and the
\* outer catch reports it
Conclude(info) ==
    IF ~Falsy(info)
    THEN IF info.type = "string"
         THEN LicenseFound(info.str)
         ELSE ErrorCheckingLicense
    ELSE NoLicenseInformation

HostRequest(api, path) == [api |-> api, path |-> path, page |-> 0]

LcOther ==
    UNCHANGED <<GITHUB_TOKEN, op, url, page, totalContributors, entries, idx,
                totalSloc, totalComments, lastFile, lastCount, prevFile>>

\* lines 170-183 and 197-200
LcStart ==
    /\ op = "checkLicenseCompatibility"
    /\ pc = "start"
    /\ IF TokenMissing(GITHUB_TOKEN)
       THEN /\ result' = TokenNotSet
            /\ pc' = "returned"
            /\ UNCHANGED <<repoPath, licenseInfo>>
       ELSE IF StartsWith(url, NPM_PREFIX)
       THEN /\ pc' = "npm"
            /\ UNCHANGED <<repoPath, licenseInfo, result>>
       ELSE /\ repoPath' = Replace(url, GITHUB_PREFIX, <<>>)
            /\ licenseInfo' = Str(<<>>)
            /\ pc' = "license"
            /\ UNCHANGED result
    /\ UNCHANGED <<requests, responses>>
    /\ LcOther

\* lines 184-195 and 200: the registry request and what follows from it
LcNpm ==
    /\ op = "checkLicenseCompatibility"
    /\ pc = "npm"
    /\ requests' = Append(requests,
                          HostRequest("registry", Replace(url, NPM_PREFIX, <<>>)))
    /\ \/ /\ responses' = Append(responses, Response(FALSE, 0, Undefined))
          /\ result' = ErrorCheckingLicense
          /\ pc' = "returned"
          /\ UNCHANGED <<repoPath, licenseInfo>>
       \/ \E repository \in Repositories :
          /\ responses' = Append(responses, Response(TRUE, 0, repository))
          /\ IF HasRepositoryUrl(repository)
             THEN /\ repoPath' = RepoPathOfRepository(repository.str)
                  /\ licenseInfo' = Str(<<>>)
                  /\ pc' = "license"
                  /\ UNCHANGED result
             ELSE /\ result' = NoRepository
                  /\ pc' = "returned"
                  /\ UNCHANGED <<repoPath, licenseInfo>>
    /\ LcOther

\* the manifest consulted whatever the LICENSE step produced
AfterLicenseAlwaysManifest(ok) == "manifest"

\* where the chain goes after the LICENSE step: line 206 enters the catch
\* block (the manifest) exactly when the try block threw
AfterLicense(ok) == IF ok THEN "readme" ELSE "manifest"

\* lines 203-206: the LICENSE request; a failure is the request failing or
\* its response carrying nothing to decode
LcLicense ==
    /\ op = "checkLicenseCompatibility"
    /\ pc = "license"
    /\ requests' = Append(requests, HostRequest("contents/LICENSE", repoPath))
    /\ \/ /\ responses' = Append(responses, Response(FALSE, 0, Undefined))
          /\ pc' = AfterLicense(FALSE)
          /\ UNCHANGED licenseInfo
       \/ \E text \in LicenseFiles :
          /\ responses' = Append(responses, Response(TRUE, 0, Str(text)))
          /\ licenseInfo' = Str(text)
          /\ pc' = AfterLicense(TRUE)
    /\ UNCHANGED <<repoPath, result>>
    /\ LcOther

\* lines 210-216: the package.json request; a failure is the request failing
\* or the content not parsing, and leaves licenseInfo as it is
LcManifest ==
    /\ op = "checkLicenseCompatibility"
    /\ pc = "manifest"
    /\ requests' = Append(requests, HostRequest("contents/package.json", repoPath))
    /\ \/ /\ responses' = Append(responses, Response(FALSE, 0, Undefined))
          /\ UNCHANGED licenseInfo
       \/ \E license \in ManifestLicenses :
          /\ responses' = Append(responses, Response(TRUE, 0, license))
          /\ licenseInfo' = OrEmpty(license)
    /\ pc' = "readme"
    /\ UNCHANGED <<repoPath, result>>
    /\ LcOther

\* line 220: the README is consulted
NeedsReadme(info) == Falsy(info)

\* lines 220-238 when the README is consulted
LcReadme ==
    /\ op = "checkLicenseCompatibility"
    /\ pc = "readme"
    /\ NeedsReadme(licenseInfo)
    /\ requests' = Append(requests, HostRequest("readme", repoPath))
    /\ \/ /\ responses' = Append(responses, Response(FALSE, 0, Undefined))
          /\ result' = ErrorCheckingLicense
          /\ UNCHANGED licenseInfo
       \/ \E readmeContent \in Readmes :
          /\ responses' = Append(responses, Response(TRUE, 0, Str(readmeContent)))
          /\ licenseInfo' = OrEmpty(extractLicenseFromReadme(readmeContent))
          /\ result' = Conclude(licenseInfo')
    /\ pc' = "returned"
    /\ UNCHANGED repoPath
    /\ LcOther

\* lines 220 and 226-238 when license information is already there
LcConclude ==
    /\ op = "checkLicenseCompatibility"
    /\ pc = "readme"
    /\ ~NeedsReadme(licenseInfo)
    /\ result' = Conclude(licenseInfo)
    /\ pc' = "returned"
    /\ UNCHANGED <<requests, responses, repoPath, licenseInfo>>
    /\ LcOther

----------------------------------------------------------------------------
(* One invocation of one public operation *)

Operations == {"getBusFactor", "cloneRepo", "calculateRampUpMetric",
               "checkLicenseCompatibility"}

\* only checkLicenseCompatibility reads the credential
TokensFor(o) ==
    IF o = "checkLicenseCompatibility" THEN Tokens ELSE {Undefined}

\* calculateRampUpMetric takes a local path, the others a URL
ArgumentsFor(o) ==
    IF o = "calculateRampUpMetric" THEN {<<"/tmp/", "repo">>} ELSE Urls

Init ==
    /\ op \in Operations
    /\ GITHUB_TOKEN \in TokensFor(op)
    /\ url \in ArgumentsFor(op)
    /\ pc = "start"
    /\ requests = <<>>
    /\ responses = <<>>
    /\ page = 1
    /\ totalContributors = 0
    /\ repoPath = <<>>
    /\ licenseInfo = Str(<<>>)
    /\ entries = <<>>
    /\ idx = 1
    /\ totalSloc = 0
    /\ totalComments = 0
    /\ lastFile = NoFile
    /\ lastCount = [sloc |-> 0, comments |-> 0]
    /\ prevFile = NoFile
    /\ result = NoResult

BusNext ==
    \/ BfStart
    \/ BfPage
    \/ BfFail

RampUpNext ==
    \/ RuStart
    \/ RuEntry
    \/ RuFinish

LicenseNext ==
    \/ LcStart
    \/ LcNpm
    \/ LcLicense
    \/ LcManifest
    \/ LcReadme
    \/ LcConclude

Next ==
    \/ BusNext
    \/ CloneRepo
    \/ RampUpNext
    \/ LicenseNext

\* an invocation of any of the four operations
Spec == Init /\ [][Next]_vars

BusInit == Init /\ op = "getBusFactor"

\* invocations of getBusFactor
BusSpec == BusInit /\ [][BusNext]_vars

RampUpInit == Init /\ op = "calculateRampUpMetric"

\* invocations of calculateRampUpMetric
RampUpSpec == RampUpInit /\ [][RampUpNext]_vars

LicenseInit == Init /\ op = "checkLicenseCompatibility"

\* invocations of checkLicenseCompatibility
LicenseSpec == LicenseInit /\ [][LicenseNext]_vars

----------------------------------------------------------------------------
(* Properties *)

Bus == op = "getBusFactor"

License == op = "checkLicenseCompatibility"

RampUp == op = "calculateRampUpMetric"

RECURSIVE SumOfLengths(_)
SumOfLengths(rs) ==
    IF rs = <<>> THEN 0 ELSE rs[1].len + SumOfLengths(Tail(rs))

Last(seq) == seq[Len(seq)]

\* C1: getBusFactor requests pages 1, 2, ... in order, each once; a page is
\* requested only after the one before it returned exactly 100 entries; the
\* first page with fewer than 100 entries ends the operation, with as many
\* requests as pages and a total equal to the sum of the page lengths.
C1_Pagination ==
    Bus =>
        /\ Len(requests) = Len(responses)
        /\ \A i \in 1..Len(requests) :
               /\ requests[i].api = "contributors"
               /\ requests[i].page = i
        /\ \A i \in 1..(Len(responses) - 1) :
               responses[i].ok /\ responses[i].len = 100
        /\ \A i \in 1..Len(responses) :
               (responses[i].ok /\ responses[i].len < 100) =>
                   /\ i = Len(responses)
                   /\ pc = "returned"
                   /\ totalContributors = SumOfLengths(responses)
        /\ (pc = "returned" /\ Last(responses).ok) => Last(responses).len < 100
        /\ pc = "loop" => page = Len(requests) + 1

\* pages of 100, 100 and 50 entries: 3 requests, a total of 250
C1_Witness ==
    /\ Bus
    /\ pc = "returned"
    /\ [i \in 1..Len(responses) |-> responses[i].len] = <<100, 100, 50>>
    /\ [i \in 1..Len(requests) |-> requests[i].page] = <<1, 2, 3>>
    /\ totalContributors = 250

\* C2: after a successful pagination the score is the step function of the
\* total: 1 -> 0.1, 2 -> 0.2, 0, 3 and 4 -> 0.3, 5..8 -> 0.4, 9..16 -> 0.5,
\* 17..32 -> 0.6, 33..64 -> 0.7, 65..128 -> 0.8, 129..256 -> 0.9, more -> 1.0.
C2_StepFunction ==
    (Bus /\ pc = "returned" /\ Last(responses).ok) =>
        LET c == totalContributors
            v == result.score
        IN  /\ result.kind = "number"
            /\ v \in 1..10
            /\ (c = 1) <=> (v = 1)
            /\ (c = 2) <=> (v = 2)
            /\ (c \in {0, 3, 4}) <=> (v = 3)
            /\ (c \in 5..8) <=> (v = 4)
            /\ (c \in 9..16) <=> (v = 5)
            /\ (c \in 17..32) <=> (v = 6)
            /\ (c \in 33..64) <=> (v = 7)
            /\ (c \in 65..128) <=> (v = 8)
            /\ (c \in 129..256) <=> (v = 9)
            /\ (c >= 257) <=> (v = 10)

\* 257 contributors over three pages score 1.0
C2_Witness ==
    /\ Bus
    /\ pc = "returned"
    /\ Len(responses) = 3
    /\ Last(responses).ok
    /\ totalContributors = 257
    /\ result.score = 10

\* C3: once a contributor page request has failed, on whatever page, the
\* operation has returned -1: the failed request is the last one issued and
\* the count gathered before it is not scored.
C3_FailureAborts ==
    Bus =>
        \A i \in 1..Len(responses) :
            ~responses[i].ok =>
                /\ i = Len(requests)
                /\ pc = "returned"
                /\ result.kind = "number"
                /\ result.score = -10

\* the request for page 2 fails after 100 contributors were counted
C3_Witness ==
    /\ Bus
    /\ Len(responses) = 2
    /\ ~responses[2].ok
    /\ totalContributors = 100
    /\ result.score = -10

HostApis == {"contents/LICENSE", "contents/package.json", "readme"}

\* the hosting-API requests issued so far, in order
HostIndexes == {i \in 1..Len(requests) : requests[i].api \in HostApis}

\* request i produced a license value
ProducedLicense(i) ==
    /\ requests[i].api \in {"contents/LICENSE", "contents/package.json"}
    /\ responses[i].ok
    /\ ~(responses[i].value.type = "undefined")
    /\ ~(responses[i].value.type = "string" /\ responses[i].value.str = <<>>)

\* C4: the sources are consulted in the order LICENSE, package.json, README;
\* package.json only after the LICENSE step failed, the README only after
\* no earlier step produced a license, and a step that produced one is the
\* last request, its text alone deciding the result.
C4_FallbackOrder ==
    License =>
        /\ \A i, j \in HostIndexes :
               i < j =>
                   \/ /\ requests[i].api = "contents/LICENSE"
                      /\ requests[j].api # "contents/LICENSE"
                   \/ /\ requests[i].api = "contents/package.json"
                      /\ requests[j].api = "readme"
        /\ \A i \in HostIndexes :
               /\ requests[i].api # "contents/LICENSE" =>
                      (i - 1) \in HostIndexes /\ requests[i - 1].api # "readme"
               /\ requests[i].api = "contents/package.json" =>
                      ~responses[i - 1].ok
               /\ requests[i].api = "readme" =>
                      \A j \in HostIndexes : j < i => ~ProducedLicense(j)
               /\ ProducedLicense(i) =>
                      /\ i = Len(requests)
                      /\ (pc = "returned" /\ responses[i].value.type = "string") =>
                             /\ result.details = "License found: "
                             /\ result.line = FirstLine(responses[i].value.str)
                             /\ result.compatible =
                                    isCompatibleWithLGPLv2_1(responses[i].value.str)
                             /\ result.score = IF result.compatible THEN 1 ELSE 0

\* no LICENSE file, a manifest declaring MIT: two requests, score 1
C4_Witness ==
    /\ License
    /\ pc = "returned"
    /\ [i \in 1..Len(requests) |-> requests[i].api] =
           <<"contents/LICENSE", "contents/package.json">>
    /\ ~responses[1].ok
    /\ responses[2].value = Str(MIT_ID)
    /\ result.score = 1

\* C5: without a credential checkLicenseCompatibility returns
\* {score: 0, details: 'GitHub token not set'} for every URL and issues no
\* request at all.
C5_NoTokenNoRequest ==
    (License /\ (GITHUB_TOKEN.type = "undefined" \/ GITHUB_TOKEN.str = <<>>)) =>
        /\ requests = <<>>
        /\ pc \in {"start", "returned"}
        /\ pc = "returned" =>
               /\ result.score = 0
               /\ result.details = "GitHub token not set"

\* an npm URL, no credential: returned without a request
C5_Witness ==
    /\ License
    /\ GITHUB_TOKEN = Undefined
    /\ StartsWith(url, NPM_PREFIX)
    /\ pc = "returned"
    /\ result.details = "GitHub token not set"
    /\ requests = <<>>

\* C6: no public operation ever throws to its caller.
C6_NeverThrows == pc # "threw"

\* C7: for an npm URL with a credential the registry is asked first, and
\* metadata without a repository url ends the operation with
\* 'No GitHub repository found for npm package' and no hosting-API request.
C7_NoRepository ==
    (License /\ StartsWith(url, NPM_PREFIX)) =>
        /\ requests # <<>> =>
               /\ requests[1].api = "registry"
               /\ requests[1].path = <<"pkg">>
        /\ (/\ responses # <<>>
            /\ responses[1].ok
            /\ responses[1].value \in {Undefined, Repository(<<>>)}) =>
               /\ Len(requests) = 1
               /\ pc = "returned"
               /\ result.score = 0
               /\ result.details = "No GitHub repository found for npm package"

\* metadata with a repository that has no url
C7_Witness ==
    /\ License
    /\ StartsWith(url, NPM_PREFIX)
    /\ Len(responses) = 1
    /\ responses[1].ok
    /\ responses[1].value = Repository(<<>>)
    /\ pc = "returned"
    /\ result.details = "No GitHub repository found for npm package"

\* the lines of a file on disk, written down without split
LinesOf(f) == <<f.head>> \o [i \in 1..f.n |-> f.fill] \o <<f.tail>>

\* the first line opens a block comment and nothing closes it within the
\* first 100 lines
OpensUnclosed(f) ==
    /\ StartsWith(Trim(f.head), <<"/", "*">>)
    /\ \A i \in 1..Min(Len(LinesOf(f)), 100) :
           ~EndsWith(Trim(LinesOf(f)[i]), <<"*", "/">>)

\* every one of the first 100 lines is a line of code
AllCode(f) ==
    \A i \in 1..Min(Len(LinesOf(f)), 100) :
        /\ Trim(LinesOf(f)[i]) # <<>>
        /\ ~StartsWith(Trim(LinesOf(f)[i]), <<"/">>)

\* C8: a file whose first line opens a block comment that stays open over
\* the first 100 lines has every line up to the cap counted as a comment,
\* blank ones too, and no code line; no line after the 100th is counted;
\* and a file read after it is classified from a closed state.
C8_OpenBlock ==
    (RampUp /\ pc = "walk" /\ lastFile # NoFile) =>
        /\ lastCount.sloc + lastCount.comments <= 100
        /\ OpensUnclosed(lastFile) =>
               /\ lastCount.comments = Min(Len(LinesOf(lastFile)), 100)
               /\ lastCount.sloc = 0
        /\ AllCode(lastFile) =>
               /\ lastCount.sloc = Min(Len(LinesOf(lastFile)), 100)
               /\ lastCount.comments = 0

\* a file of code lines read after a file of 101 lines, blank ones among
\* them, that left its block comment open
C8_Witness ==
    /\ RampUp
    /\ pc = "walk"
    /\ OpensUnclosed(prevFile)
    /\ prevFile.fill = <<>>
    /\ Len(LinesOf(prevFile)) = 101
    /\ AllCode(lastFile)
    /\ Len(LinesOf(lastFile)) = 101
    /\ totalComments = 100
    /\ totalSloc = 100

\* C9: a failure of the LICENSE or manifest step is never reported as an
\* error, and the fallback chain ends in 'Error checking license' only when
\* the README request failed.
C9_ErrorOnlyFromReadme ==
    (/\ License
     /\ pc = "returned"
     /\ HostIndexes # {}
     /\ result.details = "Error checking license: ") =>
        /\ Last(requests).api = "readme"
        /\ ~Last(responses).ok

\* the README has no License heading, or nothing under it
NoLicenseSection(content) ==
    \/ \A i \in 1..Len(content) : HeadingEnd(content, i) = 0
    \/ LicenseSection(content).str = <<>>

\* C10: a README fetched at the end of the chain that has no License
\* section, or an empty one, gives {score: 0, details: 'No license
\* information found'}; score 1 is returned only for a non-empty license
\* text that matches the allow-list.
C10_NoLicenseInformation ==
    (License /\ pc = "returned") =>
        /\ (/\ requests # <<>>
            /\ Last(requests).api = "readme"
            /\ Last(responses).ok
            /\ NoLicenseSection(Last(responses).value.str)) =>
               /\ result.score = 0
               /\ result.details = "No license information found"
        /\ result.score = 1 =>
               /\ licenseInfo.type = "string"
               /\ licenseInfo.str # <<>>
               /\ isCompatibleWithLGPLv2_1(licenseInfo.str)

\* no LICENSE file, no manifest, a README without a License heading
C10_Witness ==
    /\ License
    /\ pc = "returned"
    /\ Len(requests) = 3
    /\ Last(requests).api = "readme"
    /\ Last(responses).ok
    /\ \A i \in 1..Len(Last(responses).value.str) :
           HeadingEnd(Last(responses).value.str, i) = 0
    /\ Last(responses).value.str # <<>>
    /\ result.details = "No license information found"

====
